---- MODULE Spec2Model ----
(***************************************************************************)
(* A model of the climate-model core: the series assembler                 *)
(* (load_data.py), the recurrence engine and the accuracy reporter         *)
(* (calculations.py).                                                      *)
(*                                                                         *)
(* Floats are fixed-point integers:                                        *)
(*   temperatures and anomalies   1 unit = 0.00001 degrees Celsius         *)
(*   CO2 concentrations           1 unit = 0.01 ppm                        *)
(*   sensitivity, emissions       1 unit = 0.1                             *)
(*   percent errors               1 unit = 0.00001 percent                 *)
(*   a value rounded to 2 places  1 unit = 0.01                            *)
(* An Optional[float] is << >> (None) or <<v>>.                            *)
(***************************************************************************)
EXTENDS Integers, Sequences, FiniteSets, TLC

VARIABLES metrics, stage, last, widgets, graph

vars == <<metrics, stage, last, widgets, graph>>

(***************************************************************************)
(* Bounds of the model.                                                    *)
(***************************************************************************)
MaxRows == 3
MaxEntries == 3

(***************************************************************************)
(* Optional values and the two dataclasses.                                *)
(***************************************************************************)
None == << >>

Some(v) == <<v>>

YearlyMetrics(year, co2) ==
  [year |-> year, co2 |-> co2, temp_anomaly |-> None, temp |-> None,
   calculated_temp |-> None, calculated_temp_anomaly |-> None]

MonthlyMetrics(year, month, co2) ==
  [year |-> year, month |-> month, co2 |-> co2, temp_anomaly |-> None,
   temp |-> None, calculated_temp |-> None, calculated_temp_anomaly |-> None]

IsYearlyMetrics(entry) == "month" \notin DOMAIN entry

(***************************************************************************)
(* Arithmetic helpers.                                                     *)
(***************************************************************************)
Abs(x) == IF x < 0 THEN -x ELSE x

\* Python's round(): the quotient num / den (den > 0) rounded to the nearest
\* integer, ties to the even one.
RoundHalfEven(num, den) ==
  LET q == num \div den
      r == num % den
  IN  IF 2 * r < den THEN q
      ELSE IF 2 * r > den THEN q + 1
      ELSE IF q % 2 = 0 THEN q ELSE q + 1

\* log2 is computed to LogBits binary places.
LogBits == 12

LogOne == 2 ^ LogBits

\* The fractional bits of log2(x / LogOne) for LogOne <= x < 2 * LogOne,
\* by repeated squaring: k bits still to produce.
RECURSIVE Log2Frac(_, _)
Log2Frac(x, k) ==
  IF k = 0 THEN 0
  ELSE LET sq == (x * x) \div LogOne
       IN  IF sq >= 2 * LogOne
           THEN 2 ^ (k - 1) + Log2Frac(sq \div 2, k - 1)
           ELSE Log2Frac(sq, k - 1)

\* floor(log2(n / d)) for n >= d > 0.
RECURSIVE Log2Int(_, _)
Log2Int(n, d) == IF n >= 2 * d THEN 1 + Log2Int(n, 2 * d) ELSE 0

\* log2(n / d) * LogOne for n > 0, d > 0.
RECURSIVE Log2(_, _)
Log2(n, d) ==
  IF n < d THEN -Log2(d, n)
  ELSE LET e == Log2Int(n, d)
           x == (n * LogOne) \div (d * (2 ^ e))
       IN  e * LogOne + Log2Frac(x, LogBits)

(***************************************************************************)
(* load_data.py: the series assembler.  A source is the list of rows left  *)
(* after the header lines are skipped, each row already split into its     *)
(* fields: Source A rows are [year, co2] or [year, month, co2], Source B   *)
(* rows are [year, temp_anomaly] or [key, temp_anomaly] with key = YYYYMM. *)
(***************************************************************************)
REFERENCE_TEMP == 1390000

InRange(year) == 1959 <= year /\ year <= 2020

\* RecordedTemp without the rounding.
RecordedTempUnrounded(temp_anomaly) == REFERENCE_TEMP + temp_anomaly

\* round(13.9 + temp_anomaly, 2)
RecordedTemp(temp_anomaly) ==
  RoundHalfEven(REFERENCE_TEMP + temp_anomaly, 1000) * 1000

\* The first loop of load_yearly_data over rows lo..hi, taken by halves: one
\* YearlyMetrics per accepted row, in the order of the rows.
RECURSIVE YearlyBuild(_, _, _)
YearlyBuild(rows, lo, hi) ==
  IF lo > hi THEN << >>
  ELSE IF lo = hi
  THEN IF InRange(rows[lo].year)
       THEN <<YearlyMetrics(rows[lo].year, rows[lo].co2)>>
       ELSE << >>
  ELSE LET mid == (lo + hi) \div 2
       IN  YearlyBuild(rows, lo, mid) \o YearlyBuild(rows, mid + 1, hi)

\* One pass of the second loop of load_yearly_data on a row; acc.index is
\* the next object to mutate (0-based as in the source).
YearlyFillRow(acc, row) ==
  IF acc.outcome # "ok" \/ ~InRange(row.year) THEN acc
  ELSE IF acc.index >= Len(acc.ret)
  THEN [outcome |-> "IndexError", ret |-> << >>, index |-> acc.index]
  ELSE [outcome |-> "ok",
        ret |-> [acc.ret EXCEPT
                   ![acc.index + 1].temp_anomaly = Some(row.temp_anomaly),
                   ![acc.index + 1].temp = Some(RecordedTemp(row.temp_anomaly))],
        index |-> acc.index + 1]

\* The second loop of load_yearly_data over rows lo..hi, taken by halves:
\* the state left by the first half is the one the second half starts on.
RECURSIVE YearlyFill(_, _, _, _)
YearlyFill(acc, rows, lo, hi) ==
  IF lo > hi THEN acc
  ELSE IF lo = hi THEN YearlyFillRow(acc, rows[lo])
  ELSE LET mid == (lo + hi) \div 2
       IN  CHOOSE r \in { YearlyFill(left, rows, mid + 1, hi) :
                           left \in {YearlyFill(acc, rows, lo, mid)} } : TRUE

load_yearly_data(rowsA, rowsB) ==
  LET metrics_so_far == YearlyBuild(rowsA, 1, Len(rowsA))
      r == YearlyFill([outcome |-> "ok", ret |-> metrics_so_far, index |-> 0],
                      rowsB, 1, Len(rowsB))
  IN  [outcome |-> r.outcome, ret |-> r.ret]

\* int(row[0][:4]) and int(row[0][4:]) of a packed YYYYMM key.
KeyYear(key) == key \div 100

KeyMonth(key) == key % 100

RECURSIVE MonthlyBuild(_, _, _)
MonthlyBuild(rows, lo, hi) ==
  IF lo > hi THEN << >>
  ELSE IF lo = hi
  THEN IF InRange(rows[lo].year)
       THEN <<MonthlyMetrics(rows[lo].year, rows[lo].month, rows[lo].co2)>>
       ELSE << >>
  ELSE LET mid == (lo + hi) \div 2
       IN  MonthlyBuild(rows, lo, mid) \o MonthlyBuild(rows, mid + 1, hi)

\* MonthlyFillRow that leaves the month of Source A in place.
MonthlyFillRowKeepMonth(acc, row) ==
  IF acc.outcome # "ok" \/ ~InRange(KeyYear(row.key)) THEN acc
  ELSE IF acc.index >= Len(acc.ret)
  THEN [outcome |-> "IndexError", ret |-> << >>, index |-> acc.index]
  ELSE [outcome |-> "ok",
        ret |-> [acc.ret EXCEPT
                   ![acc.index + 1].temp_anomaly = Some(row.temp_anomaly),
                   ![acc.index + 1].temp = Some(RecordedTemp(row.temp_anomaly))],
        index |-> acc.index + 1]

\* One pass of the second loop of load_monthly_data, as YearlyFillRow, the
\* month of the key written onto the object as well.
MonthlyFillRow(acc, row) ==
  IF acc.outcome # "ok" \/ ~InRange(KeyYear(row.key)) THEN acc
  ELSE IF acc.index >= Len(acc.ret)
  THEN [outcome |-> "IndexError", ret |-> << >>, index |-> acc.index]
  ELSE [outcome |-> "ok",
        ret |-> [acc.ret EXCEPT
                   ![acc.index + 1].month = KeyMonth(row.key),
                   ![acc.index + 1].temp_anomaly = Some(row.temp_anomaly),
                   ![acc.index + 1].temp = Some(RecordedTemp(row.temp_anomaly))],
        index |-> acc.index + 1]

RECURSIVE MonthlyFill(_, _, _, _)
MonthlyFill(acc, rows, lo, hi) ==
  IF lo > hi THEN acc
  ELSE IF lo = hi THEN MonthlyFillRow(acc, rows[lo])
  ELSE LET mid == (lo + hi) \div 2
       IN  CHOOSE r \in { MonthlyFill(left, rows, mid + 1, hi) :
                           left \in {MonthlyFill(acc, rows, lo, mid)} } : TRUE

load_monthly_data(rowsA, rowsB) ==
  LET metrics_so_far == MonthlyBuild(rowsA, 1, Len(rowsA))
      r == MonthlyFill([outcome |-> "ok", ret |-> metrics_so_far, index |-> 0],
                       rowsB, 1, Len(rowsB))
  IN  [outcome |-> r.outcome, ret |-> r.ret]

(***************************************************************************)
(* calculations.py: the recurrence engine.                                 *)
(***************************************************************************)
INITIAL_YEAR == 2020

INITIAL_CO2 == 41424

INITIAL_TEMP == 1549000

\* calculate_concentration with all of the emissions staying in the air.
calculate_concentration_all_airborne(past_concentration, emissions) ==
  LET increase_in_concentration == RoundHalfEven(emissions * 100, 23)
  IN  past_concentration + increase_in_concentration

\* (emissions * 0.45) / 2.3, emissions in tenths, the result in 0.01 ppm.
calculate_concentration(past_concentration, emissions) ==
  LET increase_in_concentration == RoundHalfEven(emissions * 45, 23)
  IN  past_concentration + increase_in_concentration

\* sensitivity * math.log(new / current, 2) in temperature units.
SensitivityTimesLog(sensitivity, new_concentration, current_concentration) ==
  LET l == IF new_concentration > 0
           THEN Log2(new_concentration, current_concentration)
           ELSE Log2(-new_concentration, -current_concentration)
  IN  RoundHalfEven(sensitivity * l * 625, LogOne \div 16)

\* calculate_temperature returning the change of temperature as the anomaly.
calculate_temperature_change(current_temp, sensitivity, new_concentration, current_concentration) ==
  IF current_concentration = 0
  THEN [outcome |-> "ZeroDivisionError"]
  ELSE IF new_concentration = 0
          \/ (new_concentration > 0) # (current_concentration > 0)
  THEN [outcome |-> "ValueError"]
  ELSE IF current_temp = None
  THEN [outcome |-> "TypeError"]
  ELSE LET calculated_temp ==
             current_temp[1] + SensitivityTimesLog(sensitivity, new_concentration,
                                                   current_concentration)
       IN  [outcome |-> "ok",
            calculated_temp |-> calculated_temp,
            calculated_temp_anomaly |-> calculated_temp - current_temp[1]]

\* The division fails on a zero divisor, math.log on a quotient <= 0, and the
\* addition, evaluated last, on a temperature that is None.
calculate_temperature(current_temp, sensitivity, new_concentration, current_concentration) ==
  IF current_concentration = 0
  THEN [outcome |-> "ZeroDivisionError"]
  ELSE IF new_concentration = 0
          \/ (new_concentration > 0) # (current_concentration > 0)
  THEN [outcome |-> "ValueError"]
  ELSE IF current_temp = None
  THEN [outcome |-> "TypeError"]
  ELSE LET calculated_temp ==
             current_temp[1] + SensitivityTimesLog(sensitivity, new_concentration,
                                                   current_concentration)
       IN  [outcome |-> "ok",
            calculated_temp |-> calculated_temp,
            calculated_temp_anomaly |-> calculated_temp - REFERENCE_TEMP]

\* UpdateIteration carrying the calculated temperature forward instead of the
\* recorded one.
UpdateIterationChained(acc, sensitivity, i) ==
  IF acc.outcome # "ok" THEN acc
  ELSE LET current_entry == acc.metrics[i + 1]
           current_co2 == current_entry.co2
           r == calculate_temperature(acc.past_temp, sensitivity, current_co2,
                                      acc.past_co2)
       IN  IF r.outcome # "ok" THEN [acc EXCEPT !.outcome = r.outcome]
           ELSE [outcome |-> "ok",
                 metrics |-> [acc.metrics EXCEPT
                    ![i + 1].calculated_temp = Some(r.calculated_temp),
                    ![i + 1].calculated_temp_anomaly = Some(r.calculated_temp_anomaly)],
                 past_co2 |-> current_co2,
                 past_temp |-> Some(r.calculated_temp)]

\* UpdateIteration that also overwrites the recorded temperature of the
\* object.
UpdateIterationOverwritingTemp(acc, sensitivity, i) ==
  IF acc.outcome # "ok" THEN acc
  ELSE LET current_entry == acc.metrics[i + 1]
           current_co2 == current_entry.co2
           r == calculate_temperature(acc.past_temp, sensitivity, current_co2,
                                      acc.past_co2)
       IN  IF r.outcome # "ok" THEN [acc EXCEPT !.outcome = r.outcome]
           ELSE [outcome |-> "ok",
                 metrics |-> [acc.metrics EXCEPT
                    ![i + 1].calculated_temp = Some(r.calculated_temp),
                    ![i + 1].calculated_temp_anomaly = Some(r.calculated_temp_anomaly),
                    ![i + 1].temp = Some(r.calculated_temp)],
                 past_co2 |-> current_co2,
                 past_temp |-> current_entry.temp]

\* UpdateIteration that stores the anomaly it calculates in temp_anomaly, as
\* extrapolate_data does.
UpdateIterationIntoRecorded(acc, sensitivity, i) ==
  IF acc.outcome # "ok" THEN acc
  ELSE LET current_entry == acc.metrics[i + 1]
           current_co2 == current_entry.co2
           r == calculate_temperature(acc.past_temp, sensitivity, current_co2,
                                      acc.past_co2)
       IN  IF r.outcome # "ok" THEN [acc EXCEPT !.outcome = r.outcome]
           ELSE [outcome |-> "ok",
                 metrics |-> [acc.metrics EXCEPT
                    ![i + 1].calculated_temp = Some(r.calculated_temp),
                    ![i + 1].temp_anomaly = Some(r.calculated_temp_anomaly)],
                 past_co2 |-> current_co2,
                 past_temp |-> current_entry.temp]

\* One pass of the loop of update_data, at index i (0-based).  The list is
\* mutated in place, so a failure leaves the objects before i updated.
UpdateIteration(acc, sensitivity, i) ==
  IF acc.outcome # "ok" THEN acc
  ELSE LET current_entry == acc.metrics[i + 1]
           current_co2 == current_entry.co2
           r == calculate_temperature(acc.past_temp, sensitivity, current_co2,
                                      acc.past_co2)
       IN  IF r.outcome # "ok" THEN [acc EXCEPT !.outcome = r.outcome]
           ELSE [outcome |-> "ok",
                 metrics |-> [acc.metrics EXCEPT
                    ![i + 1].calculated_temp = Some(r.calculated_temp),
                    ![i + 1].calculated_temp_anomaly = Some(r.calculated_temp_anomaly)],
                 past_co2 |-> current_co2,
                 past_temp |-> current_entry.temp]

\* The passes lo..hi of the loop of update_data, taken by halves.
RECURSIVE UpdateLoop(_, _, _, _)
UpdateLoop(acc, sensitivity, lo, hi) ==
  IF lo > hi THEN acc
  ELSE IF lo = hi THEN UpdateIteration(acc, sensitivity, lo)
  ELSE LET mid == (lo + hi) \div 2
       IN  CHOOSE r \in { UpdateLoop(left, sensitivity, mid + 1, hi) :
                           left \in {UpdateLoop(acc, sensitivity, lo, mid)} } : TRUE

\* update_data with its loop started at the first object.
update_data_from_first(ms, sensitivity) ==
  IF Len(ms) = 0 THEN [outcome |-> "IndexError", metrics |-> ms]
  ELSE LET r == UpdateLoop([outcome |-> "ok", metrics |-> ms,
                            past_co2 |-> ms[1].co2, past_temp |-> ms[1].temp],
                           sensitivity, 0, Len(ms) - 1)
       IN  [outcome |-> r.outcome, metrics |-> r.metrics]

update_data(ms, sensitivity) ==
  IF Len(ms) = 0 THEN [outcome |-> "IndexError", metrics |-> ms]
  ELSE LET r == UpdateLoop([outcome |-> "ok", metrics |-> ms,
                            past_co2 |-> ms[1].co2, past_temp |-> ms[1].temp],
                           sensitivity, 1, Len(ms) - 1)
       IN  [outcome |-> r.outcome, metrics |-> r.metrics]

\* ExtrapolatedEntry with the calculated values in the calculated fields.
ExtrapolatedEntryCalculated(current_year, current_co2, current_temp, current_temp_anomaly) ==
  [YearlyMetrics(current_year, current_co2) EXCEPT
     !.calculated_temp = Some(current_temp),
     !.calculated_temp_anomaly = Some(current_temp_anomaly)]

\* The YearlyMetrics that extrapolate_data appends: the calculated values go
\* into temp and temp_anomaly.
ExtrapolatedEntry(current_year, current_co2, current_temp, current_temp_anomaly) ==
  [YearlyMetrics(current_year, current_co2) EXCEPT
     !.temp = Some(current_temp),
     !.temp_anomaly = Some(current_temp_anomaly)]

\* ExtrapolateLoop that never carries the calculated temperature forward.
RECURSIVE ExtrapolateLoopUnchained(_, _, _, _, _, _, _)
ExtrapolateLoopUnchained(metrics_so_far, num_entries, sensitivity, emissions, i, past_co2, past_temp) ==
  IF i > num_entries THEN [outcome |-> "ok", ret |-> metrics_so_far]
  ELSE LET current_year == 2020 + i
           current_co2 == calculate_concentration(past_co2, emissions)
           r == calculate_temperature(Some(past_temp), sensitivity, current_co2,
                                      past_co2)
       IN  IF r.outcome # "ok" THEN [outcome |-> r.outcome, ret |-> << >>]
           ELSE ExtrapolateLoopUnchained(
                  Append(metrics_so_far,
                         ExtrapolatedEntry(current_year, current_co2,
                                           r.calculated_temp,
                                           r.calculated_temp_anomaly)),
                  num_entries, sensitivity, emissions, i + 1,
                  current_co2, past_temp)

\* The loop of extrapolate_data from i on.
RECURSIVE ExtrapolateLoop(_, _, _, _, _, _, _)
ExtrapolateLoop(metrics_so_far, num_entries, sensitivity, emissions, i, past_co2, past_temp) ==
  IF i > num_entries THEN [outcome |-> "ok", ret |-> metrics_so_far]
  ELSE LET current_year == 2020 + i
           current_co2 == calculate_concentration(past_co2, emissions)
           r == calculate_temperature(Some(past_temp), sensitivity, current_co2,
                                      past_co2)
       IN  IF r.outcome # "ok" THEN [outcome |-> r.outcome, ret |-> << >>]
           ELSE ExtrapolateLoop(
                  Append(metrics_so_far,
                         ExtrapolatedEntry(current_year, current_co2,
                                           r.calculated_temp,
                                           r.calculated_temp_anomaly)),
                  num_entries, sensitivity, emissions, i + 1,
                  current_co2, r.calculated_temp)

\* extrapolate_data with its range started one early.
extrapolate_data_one_early(num_entries, sensitivity, emissions) ==
  ExtrapolateLoop(<< >>, num_entries, sensitivity, emissions, 0,
                  INITIAL_CO2, INITIAL_TEMP)

extrapolate_data(num_entries, sensitivity, emissions) ==
  ExtrapolateLoop(<< >>, num_entries, sensitivity, emissions, 1,
                  INITIAL_CO2, INITIAL_TEMP)

(***************************************************************************)
(* calculations.py: the accuracy reporter.  A dict is the sequence of its  *)
(* <<key, value>> items in insertion order; the label str(year) is         *)
(* <<year>> and the label f'{year}, {month}' is <<year, month>>.           *)
(***************************************************************************)
\* d[key] = value: a key already present keeps its place.
DictSet(d, key, value) ==
  IF \E j \in 1..Len(d) : d[j][1] = key
  THEN [j \in 1..Len(d) |-> IF d[j][1] = key THEN <<key, value>> ELSE d[j]]
  ELSE Append(d, <<key, value>>)

\* math.exp overflows above about 709.78 and returns 0.0, on which math.log
\* fails, below about -745.13.
ExpOverflow == 70978000

ExpUnderflow == -74513000

\* One pass of the loop of calculate_error, on an entry of metrics[1:].
ErrorIteration(acc, entry) ==
  IF acc.outcome # "ok" THEN acc
  ELSE LET current_year == IF IsYearlyMetrics(entry) THEN <<entry.year>>
                           ELSE <<entry.year, entry.month>>
           calculated_value == entry.calculated_temp_anomaly
           known_value == entry.temp_anomaly
       IN  IF calculated_value = None \/ known_value = None
           THEN [outcome |-> "TypeError", ret |-> << >>]
           ELSE LET d == calculated_value[1] - known_value[1]
                IN  IF d > ExpOverflow
                    THEN [outcome |-> "OverflowError", ret |-> << >>]
                    ELSE IF d < ExpUnderflow
                    THEN [outcome |-> "ValueError", ret |-> << >>]
                    ELSE [outcome |-> "ok",
                          ret |-> DictSet(acc.ret, current_year, Abs(d) * 100)]

\* The loop of calculate_error over positions lo..hi of ms, taken by halves.
RECURSIVE ErrorLoop(_, _, _, _)
ErrorLoop(acc, ms, lo, hi) ==
  IF lo > hi THEN acc
  ELSE IF lo = hi THEN ErrorIteration(acc, ms[lo])
  ELSE LET mid == (lo + hi) \div 2
       IN  CHOOSE r \in { ErrorLoop(left, ms, mid + 1, hi) :
                           left \in {ErrorLoop(acc, ms, lo, mid)} } : TRUE

calculate_error(ms) ==
  ErrorLoop([outcome |-> "ok", ret |-> << >>], ms, 2, Len(ms))

\* The sum of the values at positions lo..hi of a dict, by halves.
RECURSIVE SumRange(_, _, _)
SumRange(d, lo, hi) ==
  IF lo > hi THEN 0
  ELSE IF lo = hi THEN d[lo][2]
  ELSE LET mid == (lo + hi) \div 2
       IN  SumRange(d, lo, mid) + SumRange(d, mid + 1, hi)

SumValues(d) == SumRange(d, 1, Len(d))

\* calculate_average_percent_error dividing by the number of records.
calculate_average_percent_error_per_record(ms) ==
  LET error_data == calculate_error(ms)
  IN  IF error_data.outcome # "ok"
      THEN [outcome |-> error_data.outcome, ret |-> << >>]
      ELSE IF Len(ms) = 0
      THEN [outcome |-> "ZeroDivisionError", ret |-> << >>]
      ELSE [outcome |-> "ok",
            ret |-> [hundredths |-> RoundHalfEven(SumValues(error_data.ret),
                                                  Len(ms) * 1000),
                     suffix |-> "%"]]

\* f'{round(sum(error_values) / len(error_values), 2)}%'
calculate_average_percent_error(ms) ==
  LET error_data == calculate_error(ms)
  IN  IF error_data.outcome # "ok"
      THEN [outcome |-> error_data.outcome, ret |-> << >>]
      ELSE IF Len(error_data.ret) = 0
      THEN [outcome |-> "ZeroDivisionError", ret |-> << >>]
      ELSE [outcome |-> "ok",
            ret |-> [hundredths |-> RoundHalfEven(SumValues(error_data.ret),
                                                  Len(error_data.ret) * 1000),
                     suffix |-> "%"]]

(***************************************************************************)
(* The inputs: chronological sources of at most MaxRows rows, with periods *)
(* on both sides of the accepted range, and the slider settings.           *)
(***************************************************************************)
Years == {1958, 1959, 1960, 2020, 2021}

Periods == {195812, 195901, 195902, 196002, 196003, 202101}

CO2Values == {-9999, 31598, 41424}

AnomalyValues == {-10600, 101600}

Sensitivities == {15, 30, 50}

Emissions == {0, 100, 500}

RECURSIVE SortedSeq(_)
SortedSeq(S) ==
  IF S = {} THEN << >>
  ELSE LET m == CHOOSE x \in S : \A y \in S : x <= y
       IN  <<m>> \o SortedSeq(S \ {m})

Chronologies(P) ==
  { SortedSeq(Z) : Z \in {Y \in SUBSET P : Cardinality(Y) <= MaxRows} }

YearlyRowsA ==
  UNION { { [i \in 1..Len(s) |-> [year |-> s[i], co2 |-> f[i]]] :
              f \in [1..Len(s) -> CO2Values] } : s \in Chronologies(Years) }

YearlyRowsB ==
  UNION { { [i \in 1..Len(s) |-> [year |-> s[i], temp_anomaly |-> f[i]]] :
              f \in [1..Len(s) -> AnomalyValues] } : s \in Chronologies(Years) }

MonthlyRowsA ==
  UNION { { [i \in 1..Len(s) |->
               [year |-> s[i] \div 100, month |-> s[i] % 100, co2 |-> f[i]]] :
              f \in [1..Len(s) -> CO2Values] } : s \in Chronologies(Periods) }

MonthlyRowsB ==
  UNION { { [i \in 1..Len(s) |-> [key |-> s[i], temp_anomaly |-> f[i]]] :
              f \in [1..Len(s) -> AnomalyValues] } : s \in Chronologies(Periods) }

(***************************************************************************)
(* The state: metrics is the list the calls work on (climate_data in the   *)
(* callers), stage how far it has come (none, loaded, replayed,            *)
(* extrapolated), last the most recent call with its arguments, outcome    *)
(* and return value.  A call that raises ends the run: no call follows it. *)
(***************************************************************************)
Init ==
  /\ metrics = << >>
  /\ stage = "none"
  /\ last = [op |-> "none", args |-> << >>, outcome |-> "ok", ret |-> << >>]
  /\ widgets = [type_slider |-> 0, sensitivity_slider |-> 20,
                extrapolate_button |-> "Off", extrapolate_input |-> 1,
                extrapolate_emissions |-> 0]
  /\ graph = None

Load(op, rowsA, rowsB, r) ==
  /\ last' = [op |-> op, args |-> <<rowsA, rowsB>>, outcome |-> r.outcome,
              ret |-> r.ret]
  /\ IF r.outcome = "ok"
     THEN metrics' = r.ret /\ stage' = "loaded"
     ELSE UNCHANGED <<metrics, stage>>

LoadYearly ==
  /\ last.outcome = "ok"
  /\ UNCHANGED <<widgets, graph>>
  /\ stage = "none"
  /\ \E rowsA \in YearlyRowsA, rowsB \in YearlyRowsB :
       Load("load_yearly_data", rowsA, rowsB, load_yearly_data(rowsA, rowsB))

LoadMonthly ==
  /\ last.outcome = "ok"
  /\ UNCHANGED <<widgets, graph>>
  /\ stage = "none"
  /\ \E rowsA \in MonthlyRowsA, rowsB \in MonthlyRowsB :
       Load("load_monthly_data", rowsA, rowsB, load_monthly_data(rowsA, rowsB))

UpdateData ==
  /\ last.outcome = "ok"
  /\ UNCHANGED <<widgets, graph>>
  /\ stage \in {"loaded", "replayed"}
  /\ \E sensitivity \in Sensitivities :
       LET r == update_data(metrics, sensitivity)
       IN  /\ metrics' = r.metrics
           /\ stage' = IF r.outcome = "ok" THEN "replayed" ELSE stage
           /\ last' = [op |-> "update_data", args |-> <<sensitivity>>,
                       outcome |-> r.outcome, ret |-> << >>]

ExtrapolateData ==
  /\ last.outcome = "ok"
  /\ UNCHANGED <<widgets, graph>>
  /\ stage = "none"
  /\ \E num_entries \in 1..MaxEntries, sensitivity \in Sensitivities,
        emissions \in Emissions :
       LET r == extrapolate_data(num_entries, sensitivity, emissions)
       IN  /\ last' = [op |-> "extrapolate_data",
                       args |-> <<num_entries, sensitivity, emissions>>,
                       outcome |-> r.outcome, ret |-> r.ret]
           /\ IF r.outcome = "ok"
              THEN metrics' = r.ret /\ stage' = "extrapolated"
              ELSE UNCHANGED <<metrics, stage>>

CalculateError ==
  /\ last.outcome = "ok"
  /\ UNCHANGED <<widgets, graph>>
  /\ stage \in {"loaded", "replayed"}
  /\ LET r == calculate_error(metrics)
     IN  last' = [op |-> "calculate_error", args |-> << >>,
                  outcome |-> r.outcome, ret |-> r.ret]
  /\ UNCHANGED <<metrics, stage>>

CalculateAveragePercentError ==
  /\ last.outcome = "ok"
  /\ UNCHANGED <<widgets, graph>>
  /\ stage \in {"loaded", "replayed"}
  /\ LET r == calculate_average_percent_error(metrics)
     IN  last' = [op |-> "calculate_average_percent_error", args |-> << >>,
                  outcome |-> r.outcome, ret |-> r.ret]
  /\ UNCHANGED <<metrics, stage>>

Next ==
  \/ LoadYearly
  \/ LoadMonthly
  \/ UpdateData
  \/ ExtrapolateData
  \/ CalculateError
  \/ CalculateAveragePercentError

Spec == Init /\ [][Next]_vars

(***************************************************************************)
(* The two steps of the recurrence called on their own, as their doctests  *)
(* call them, with concentrations of either sign and of zero.              *)
(***************************************************************************)
Concentrations == CO2Values \cup {0, 31691}

Temperatures == {None, Some(1398000), Some(INITIAL_TEMP)}

StepEmissions == Emissions \cup {1}

CalculateConcentration ==
  /\ last.outcome = "ok"
  /\ \E past_concentration \in Concentrations, emissions \in StepEmissions :
       last' = [op |-> "calculate_concentration",
                args |-> <<past_concentration, emissions>>,
                outcome |-> "ok",
                ret |-> calculate_concentration(past_concentration, emissions)]
  /\ UNCHANGED <<metrics, stage, widgets, graph>>

CalculateTemperature ==
  /\ last.outcome = "ok"
  /\ \E current_temp \in Temperatures, sensitivity \in Sensitivities,
        new_concentration \in Concentrations,
        current_concentration \in Concentrations :
       LET r == calculate_temperature(current_temp, sensitivity,
                                      new_concentration, current_concentration)
       IN  last' = [op |-> "calculate_temperature",
                    args |-> <<current_temp, sensitivity, new_concentration,
                               current_concentration>>,
                    outcome |-> r.outcome,
                    ret |-> IF r.outcome = "ok"
                            THEN <<r.calculated_temp, r.calculated_temp_anomaly>>
                            ELSE << >>]
  /\ UNCHANGED <<metrics, stage, widgets, graph>>

NextSteps ==
  \/ CalculateConcentration
  \/ CalculateTemperature

SpecSteps == Init /\ [][NextSteps]_vars

(***************************************************************************)
(* visualization.py: the window.  widgets holds the two sliders, the       *)
(* extrapolate toggle and the two sliders it reveals; graph is what the    *)
(* most recent visualize click has plotted, None before the first.  The    *)
(* four csv files hold a row for every period from 1959 to 2020, as the    *)
(* doctests of the loaders say (62 and 744 records), with concentrations   *)
(* that rise and anomalies that wander.                                    *)
(***************************************************************************)
ANNUAL_CO2_FILE ==
  [i \in 1..62 |-> [year |-> 1958 + i, co2 |-> 31598 + 161 * (i - 1)]]

ANNUAL_TEMP_ANOMALY_FILE ==
  [i \in 1..62 |->
     [year |-> 1958 + i, temp_anomaly |-> 1000 * (((17 * i) % 23) + i - 10)]]

MONTHLY_CO2_FILE ==
  [i \in 1..744 |->
     [year |-> 1959 + ((i - 1) \div 12), month |-> ((i - 1) % 12) + 1,
      co2 |-> 31500 + 13 * i + 50 * ((5 * i) % 12)]]

MONTHLY_TEMP_ANOMALY_FILE ==
  [i \in 1..744 |->
     [key |-> 100 * (1959 + ((i - 1) \div 12)) + ((i - 1) % 12) + 1,
      temp_anomaly |-> 1000 * (((17 * i) % 23) + (i \div 12) - 10)]]

SliderSensitivities == {20, 50}

\* climate_data[section_start: section_end]
Slice(climate_data, section_start, section_end) ==
  LET n == Len(climate_data)
      Clip(k) == IF k < 0 THEN (IF k + n < 0 THEN 0 ELSE k + n)
                 ELSE IF k > n THEN n ELSE k
  IN  SubSeq(climate_data, Clip(section_start) + 1, Clip(section_end))

\* The load of the files of one kind followed by update_data, as both
\* callbacks run them; the list is the same at every click, so it is
\* computed once for each kind and sensitivity.
LoadAndUpdate(is_yearly_data, sensitivity) ==
  LET loaded == IF is_yearly_data
                THEN load_yearly_data(ANNUAL_CO2_FILE, ANNUAL_TEMP_ANOMALY_FILE)
                ELSE load_monthly_data(MONTHLY_CO2_FILE, MONTHLY_TEMP_ANOMALY_FILE)
  IN  IF loaded.outcome # "ok"
      THEN [outcome |-> loaded.outcome, metrics |-> << >>]
      ELSE update_data(loaded.ret, sensitivity)

climate_data ==
  [is_yearly_data \in BOOLEAN |->
     [sensitivity \in SliderSensitivities |->
        LoadAndUpdate(is_yearly_data, sensitivity)]]

\* calc.calculate_average_percent_error(climate_data) of the report.
average_percent_error ==
  [is_yearly_data \in BOOLEAN |->
     [sensitivity \in SliderSensitivities |->
        calculate_average_percent_error(
          climate_data[is_yearly_data][sensitivity].metrics)]]

get_specifications(w) ==
  LET yearly_data == w.type_slider = 1
      sensitivity == w.sensitivity_slider
      is_extrapolate == w.extrapolate_button
  IN  IF is_extrapolate = "Off"
      THEN <<is_extrapolate, <<yearly_data, sensitivity>>>>
      ELSE <<is_extrapolate,
             <<w.extrapolate_input, sensitivity, w.extrapolate_emissions>>>>

\* The starts each prompt asks for: a year, or a year and a month 'YYYY-M'
\* held as <<YYYY, M>>, the two parts that int() is applied to.
VisualizeYears == 1960..2010

VisualizeMonths ==
  {d \in (1959..2020) \X (1..12) : d[1] < 2020 \/ d[2] = 1}

ReportYears == 1960..2009

ReportMonths == VisualizeMonths \ {<<1959, 1>>}

\* Starts at both ends of the ranges that both prompts ask for.
SomeYears == {1960, 2009}

SomeMonths == {<<1959, 2>>, <<2020, 1>>}

\* visualize_button_callback: what plot_compared_data is given.  In
\* extrapolate mode nothing is compared and start is not asked for.
visualize_button_callback(specifications, start) ==
  LET is_extrapolate == specifications[1] = "On"
  IN  IF is_extrapolate
      THEN LET r == extrapolate_data(specifications[2][1], specifications[2][2],
                                     specifications[2][3])
           IN  [outcome |-> r.outcome, section |-> << >>]
      ELSE LET is_yearly_data == specifications[2][1]
               section_start == IF is_yearly_data THEN start - 1960
                                ELSE (start[1] - 1959) * 12 + (start[2] - 1)
               section_end == section_start + 12
               sensitivity == specifications[2][2]
               updated == climate_data[is_yearly_data][sensitivity]
           IN  IF updated.outcome # "ok"
               THEN [outcome |-> updated.outcome, section |-> << >>]
               ELSE [outcome |-> "ok",
                     section |-> Slice(updated.metrics, section_start, section_end)]

\* report_error_button_callback with a section of 12 records.
report_error_button_callback_twelve(specifications, start) ==
  LET is_yearly_data == specifications[2][1]
      section_start == IF is_yearly_data THEN start - 1960
                       ELSE (start[1] - 1959) * 12 + (start[2] - 1) - 1
      section_end == section_start + 12
      sensitivity == specifications[2][2]
      updated == climate_data[is_yearly_data][sensitivity]
      reported_errors ==
        calculate_error(Slice(updated.metrics, section_start, section_end))
      average == average_percent_error[is_yearly_data][sensitivity]
  IN  IF updated.outcome # "ok"
      THEN [outcome |-> updated.outcome, ret |-> << >>]
      ELSE IF reported_errors.outcome # "ok"
      THEN [outcome |-> reported_errors.outcome, ret |-> << >>]
      ELSE IF average.outcome # "ok"
      THEN [outcome |-> average.outcome,
            ret |-> [reported_errors |-> reported_errors.ret]]
      ELSE [outcome |-> "ok",
            ret |-> [reported_errors |-> reported_errors.ret,
                     printed |-> average.ret]]

\* report_error_button_callback in replay mode: the errors that are plotted
\* and the average that is printed.
report_error_button_callback(specifications, start) ==
  LET is_yearly_data == specifications[2][1]
      section_start == IF is_yearly_data THEN start - 1960
                       ELSE (start[1] - 1959) * 12 + (start[2] - 1) - 1
      section_end == section_start + 13
      sensitivity == specifications[2][2]
      updated == climate_data[is_yearly_data][sensitivity]
      reported_errors ==
        calculate_error(Slice(updated.metrics, section_start, section_end))
      average == average_percent_error[is_yearly_data][sensitivity]
  IN  IF updated.outcome # "ok"
      THEN [outcome |-> updated.outcome, ret |-> << >>]
      ELSE IF reported_errors.outcome # "ok"
      THEN [outcome |-> reported_errors.outcome, ret |-> << >>]
      ELSE IF average.outcome # "ok"
      THEN [outcome |-> average.outcome,
            ret |-> [reported_errors |-> reported_errors.ret]]
      ELSE [outcome |-> "ok",
            ret |-> [reported_errors |-> reported_errors.ret,
                     printed |-> average.ret]]

SetTypeSlider ==
  /\ \E v \in {0, 1} :
       /\ v # widgets.type_slider
       /\ widgets' = [widgets EXCEPT !.type_slider = v]
  /\ UNCHANGED <<metrics, stage, last, graph>>

SetSensitivitySlider ==
  /\ \E v \in SliderSensitivities :
       /\ v # widgets.sensitivity_slider
       /\ widgets' = [widgets EXCEPT !.sensitivity_slider = v]
  /\ UNCHANGED <<metrics, stage, last, graph>>

\* extrapolate_button_callback
ExtrapolateButton ==
  /\ widgets' = [widgets EXCEPT !.extrapolate_button =
                   IF widgets.extrapolate_button = "Off" THEN "On" ELSE "Off"]
  /\ UNCHANGED <<metrics, stage, last, graph>>

\* The two sliders that are packed only while the toggle is On.
SetExtrapolateInput ==
  /\ widgets.extrapolate_button = "On"
  /\ \E v \in 1..MaxEntries :
       /\ v # widgets.extrapolate_input
       /\ widgets' = [widgets EXCEPT !.extrapolate_input = v]
  /\ UNCHANGED <<metrics, stage, last, graph>>

SetExtrapolateEmissions ==
  /\ widgets.extrapolate_button = "On"
  /\ \E v \in Emissions :
       /\ v # widgets.extrapolate_emissions
       /\ widgets' = [widgets EXCEPT !.extrapolate_emissions = v]
  /\ UNCHANGED <<metrics, stage, last, graph>>

\* A click on the visualize button, the prompt answered from years or months.
\* The list the callback builds is local to it; the graph stays on screen.
VisualizeClick(years, months) ==
  /\ LET specifications == get_specifications(widgets)
     IN  \E start \in IF specifications[1] = "On" THEN {<< >>}
                      ELSE IF specifications[2][1] THEN years ELSE months :
           LET r == visualize_button_callback(specifications, start)
           IN  /\ last' = [op |-> "visualize_button_callback",
                           args |-> <<specifications, start>>,
                           outcome |-> r.outcome, ret |-> << >>]
               /\ graph' = IF r.outcome = "ok"
                           THEN Some([specifications |-> specifications,
                                      start |-> start,
                                      section |-> r.section])
                           ELSE graph
  /\ UNCHANGED <<metrics, stage, widgets>>

\* A click on the report button.  In extrapolate mode it prints that it
\* cannot report and returns before it asks or computes anything.
ReportClick(years, months) ==
  /\ LET specifications == get_specifications(widgets)
         is_extrapolate == specifications[1] = "On"
     IN  IF is_extrapolate
         THEN last' = [op |-> "report_error_button_callback",
                       args |-> <<specifications>>,
                       outcome |-> "ok", ret |-> << >>]
         ELSE \E start \in IF specifications[2][1] THEN years ELSE months :
                LET r == report_error_button_callback(specifications, start)
                IN  last' = [op |-> "report_error_button_callback",
                             args |-> <<specifications, start>>,
                             outcome |-> r.outcome, ret |-> r.ret]
  /\ UNCHANGED <<metrics, stage, widgets, graph>>

VisualizeButton == VisualizeClick(SomeYears, SomeMonths)

ReportErrorButton == ReportClick(SomeYears, SomeMonths)

NextGui ==
  \/ SetTypeSlider
  \/ SetSensitivitySlider
  \/ ExtrapolateButton
  \/ SetExtrapolateInput
  \/ SetExtrapolateEmissions
  \/ VisualizeButton
  \/ ReportErrorButton

SpecGui == Init /\ [][NextGui]_vars

\* The visualize button in replay mode with every start its prompts ask for,
\* at the sensitivity the slider starts on.
VisualizeSection ==
  /\ widgets.extrapolate_button = "Off"
  /\ VisualizeClick(VisualizeYears, VisualizeMonths)

NextVisualize ==
  \/ SetTypeSlider
  \/ VisualizeSection

SpecVisualize == Init /\ [][NextVisualize]_vars

\* The report button in replay mode with every start its prompts ask for,
\* at the sensitivity the slider starts on.
ReportSection ==
  /\ widgets.extrapolate_button = "Off"
  /\ ReportClick(ReportYears, ReportMonths)

NextReport ==
  \/ SetTypeSlider
  \/ ReportSection

SpecReport == Init /\ [][NextReport]_vars

(***************************************************************************)
(* The claims.                                                             *)
(***************************************************************************)
Replayed == last.op = "update_data"

Extrapolated == last.op = "extrapolate_data" /\ last.outcome = "ok"

\* The period of a record: its year, with its month for a MonthlyMetrics.
PeriodOf(entry) ==
  IF IsYearlyMetrics(entry) THEN <<entry.year>> ELSE <<entry.year, entry.month>>

\* C1: after update_data has run with some sensitivity, the calculated
\* temperature of every record after the first that has one is
\* calculate_temperature of the record before it (its recorded temperature and
\* its concentration), that sensitivity and the record's own concentration:
\* one step from the recorded values, whatever was calculated before.
C1_OneStepFromRecorded ==
  Replayed =>
    \A i \in 2..Len(metrics) :
      metrics[i].calculated_temp # None =>
        LET r == calculate_temperature(metrics[i - 1].temp, last.args[1],
                                       metrics[i].co2, metrics[i - 1].co2)
        IN  /\ r.outcome = "ok"
            /\ metrics[i].calculated_temp = Some(r.calculated_temp)

\* update_data has returned on three records whose second calculated
\* temperature differs from its recorded one and whose third has moved on.
C1_Witness ==
  /\ Replayed
  /\ last.outcome = "ok"
  /\ Len(metrics) = 3
  /\ metrics[2].calculated_temp # metrics[2].temp
  /\ metrics[3].calculated_temp # metrics[2].calculated_temp
  /\ metrics[3].calculated_temp # None

\* C2: a call of update_data that returns keeps the length of the list and the
\* period at every position, leaves calculated_temp and
\* calculated_temp_anomaly of the first record unset and sets both on every
\* later record.
C2_FirstUnsetRestSet ==
  [][(last'.op = "update_data" /\ last'.outcome = "ok" /\ last' # last) =>
       /\ Len(metrics') = Len(metrics)
       /\ \A i \in 1..Len(metrics) : PeriodOf(metrics'[i]) = PeriodOf(metrics[i])
       /\ metrics'[1].calculated_temp = None
       /\ metrics'[1].calculated_temp_anomaly = None
       /\ \A i \in 2..Len(metrics') :
            /\ metrics'[i].calculated_temp # None
            /\ metrics'[i].calculated_temp_anomaly # None]_vars

\* update_data has returned on a list of several records.
C2_Witness ==
  /\ Replayed
  /\ last.outcome = "ok"
  /\ Len(metrics) >= 2
  /\ metrics[1].calculated_temp = None
  /\ metrics[Len(metrics)].calculated_temp_anomaly # None

\* C3: extrapolate_data(num_entries, ...) returns num_entries records, the
\* i-th of year INITIAL_YEAR + i: 2021 first, then each year in turn.
C3_YearsContiguous ==
  last.op = "extrapolate_data" =>
    /\ last.outcome = "ok"
    /\ Len(last.ret) = last.args[1]
    /\ \A i \in 1..Len(last.ret) : last.ret[i].year = INITIAL_YEAR + i
    /\ last.ret[1].year = 2021

\* extrapolate_data has returned several records.
C3_Witness ==
  /\ Extrapolated
  /\ last.args[1] = MaxEntries
  /\ Len(last.ret) >= 2

\* C4 as claimed: every extrapolated record has calculated_temp and
\* calculated_temp_anomaly set and temp and temp_anomaly unset.
C4_Original ==
  Extrapolated =>
    \A i \in 1..Len(last.ret) :
      /\ last.ret[i].calculated_temp # None
      /\ last.ret[i].calculated_temp_anomaly # None
      /\ last.ret[i].temp = None
      /\ last.ret[i].temp_anomaly = None

\* C4 amended: every extrapolated record carries its calculated temperature
\* and anomaly in temp and temp_anomaly, and its calculated_temp and
\* calculated_temp_anomaly are unset.
C4_CalculatedInRecordedFields ==
  Extrapolated =>
    \A i \in 1..Len(last.ret) :
      /\ last.ret[i].temp # None
      /\ last.ret[i].temp_anomaly # None
      /\ last.ret[i].temp_anomaly = Some(last.ret[i].temp[1] - REFERENCE_TEMP)
      /\ last.ret[i].calculated_temp = None
      /\ last.ret[i].calculated_temp_anomaly = None

\* extrapolate_data has returned records and they are the list at hand.
C4_Witness ==
  /\ Extrapolated
  /\ Len(last.ret) >= 1
  /\ metrics = last.ret
  /\ stage = "extrapolated"

\* C5: the first extrapolated record comes from the initial values by
\* calculate_concentration and calculate_temperature, and every later one
\* from the record before it in the same way, with the same emissions.
C5_Chained ==
  Extrapolated =>
    \A i \in 1..Len(last.ret) :
      LET past_co2 == IF i = 1 THEN INITIAL_CO2 ELSE last.ret[i - 1].co2
          past_temp == IF i = 1 THEN Some(INITIAL_TEMP) ELSE last.ret[i - 1].temp
          r == calculate_temperature(past_temp, last.args[2], last.ret[i].co2,
                                     past_co2)
      IN  /\ last.ret[i].co2 = calculate_concentration(past_co2, last.args[3])
          /\ r.outcome = "ok"
          /\ last.ret[i].temp = Some(r.calculated_temp)

\* extrapolate_data has returned records whose concentration and temperature
\* keep rising.
C5_Witness ==
  /\ Extrapolated
  /\ Len(last.ret) >= 3
  /\ last.ret[1].co2 > INITIAL_CO2
  /\ last.ret[3].co2 > last.ret[2].co2
  /\ last.ret[2].temp[1] > last.ret[1].temp[1]
  /\ last.ret[3].temp[1] > last.ret[2].temp[1]

\* C6 as claimed: calculate_error on a replayed list returns one entry for
\* each record after the first, len(list) - 1 of them, labelled with the
\* records' periods in the order of the list, each value >= 0.
C6_Original ==
  (stage = "replayed" /\ last.op = "calculate_error") =>
    /\ last.outcome = "ok"
    /\ Len(last.ret) = Len(metrics) - 1
    /\ \A i \in 1..Len(last.ret) :
         /\ last.ret[i][1] = PeriodOf(metrics[i + 1])
         /\ last.ret[i][2] >= 0

AverageCalled == last.op = "calculate_average_percent_error"

\* C7 as claimed: calculate_average_percent_error returns the arithmetic mean
\* of the values of calculate_error on the same list, and fails when there
\* are none.
C7_Original ==
  AverageCalled =>
    LET error_data == calculate_error(metrics)
    IN  IF error_data.outcome = "ok" /\ Len(error_data.ret) > 0
        THEN /\ last.outcome = "ok"
             /\ last.ret.hundredths * 1000 * Len(error_data.ret)
                  = SumValues(error_data.ret)
        ELSE last.outcome # "ok"

\* C7 amended: calculate_average_percent_error returns, as a string ending in
\* a percent sign, the arithmetic mean of the values of calculate_error on
\* the same list rounded to 2 decimals (so within half a hundredth of the
\* mean), and fails when there are none.
C7_MeanRoundedToHundredths ==
  AverageCalled =>
    LET error_data == calculate_error(metrics)
        n == Len(error_data.ret)
    IN  IF error_data.outcome = "ok" /\ n > 0
        THEN /\ last.outcome = "ok"
             /\ last.ret.suffix = "%"
             /\ 2 * Abs(last.ret.hundredths * 1000 * n - SumValues(error_data.ret))
                  <= 1000 * n
        ELSE last.outcome # "ok"

\* The average of two different errors has been returned and is not a whole
\* number of hundredths.
C7_Witness ==
  /\ AverageCalled
  /\ last.outcome = "ok"
  /\ LET error_data == calculate_error(metrics)
     IN  /\ Len(error_data.ret) = 2
         /\ error_data.ret[1][2] # error_data.ret[2][2]
         /\ SumValues(error_data.ret) % 2000 # 0

\* C8 as claimed: the average over a list with no comparable period ends in
\* a condition of its own, not in a division by zero.
C8_Original ==
  (AverageCalled /\ Len(metrics) <= 1) =>
    last.outcome \notin {"ok", "ZeroDivisionError"}

\* The rows of a source whose period lies in 1959..2020.
AcceptedA(rows) == SelectSeq(rows, LAMBDA row : 1959 <= row.year /\ row.year <= 2020)

AcceptedYearlyB(rows) ==
  SelectSeq(rows, LAMBDA row : 1959 <= row.year /\ row.year <= 2020)

AcceptedMonthlyB(rows) ==
  SelectSeq(rows, LAMBDA row : 195901 <= row.key /\ row.key <= 202012)

LoadCalled == last.op \in {"load_yearly_data", "load_monthly_data"}

AcceptedB(op, rows) ==
  IF op = "load_yearly_data" THEN AcceptedYearlyB(rows) ELSE AcceptedMonthlyB(rows)

\* C9 as claimed: a load whose sources differ in their number of accepted
\* rows, whichever has more, fails.
C9_Original ==
  (LoadCalled /\ Len(AcceptedA(last.args[1])) # Len(AcceptedB(last.op, last.args[2])))
    => last.outcome # "ok"

\* The accepted rows of Source A and Source B are equal in number and, where
\* Source B carries a month of its own, name the same period at each position.
SamePeriods(op, a, b) ==
  /\ Len(a) = Len(b)
  /\ op = "load_monthly_data" =>
       \A i \in 1..Len(a) : a[i].year * 100 + a[i].month = b[i].key

C11_MonthFromSourceB ==
  (last.op = "load_monthly_data" /\ last.outcome = "ok") =>
    LET a == AcceptedA(last.args[1])
        b == AcceptedMonthlyB(last.args[2])
    IN  /\ Len(last.ret) = Len(a)
        /\ Len(b) <= Len(a)
        /\ \A i \in 1..Len(a) :
             /\ last.ret[i].year = a[i].year
             /\ (last.ret[i].temp_anomaly # None) = (i <= Len(b))
             /\ i <= Len(b) =>
                  /\ last.ret[i].month = b[i].key - 100 * (b[i].key \div 100)
                  /\ last.ret[i].temp_anomaly = Some(b[i].temp_anomaly)
             /\ i > Len(b) => last.ret[i].month = a[i].month

\* A monthly load has returned a record whose month, taken from Source B,
\* is not the month of its Source A row, and whose year is not the year of
\* its Source B row.
C11_Witness ==
  /\ last.op = "load_monthly_data"
  /\ last.outcome = "ok"
  /\ Len(last.ret) >= 2
  /\ LET a == AcceptedA(last.args[1])
         b == AcceptedMonthlyB(last.args[2])
     IN  /\ Len(b) >= 2
         /\ last.ret[2].month # a[2].month
         /\ last.ret[2].year # b[2].key \div 100

\* C12: on a list that update_data has returned from, update_data with the
\* same sensitivity returns again and changes no field of any record.
C12_Idempotent ==
  (Replayed /\ last.outcome = "ok") =>
    LET again == update_data(metrics, last.args[1])
    IN  /\ again.outcome = "ok"
        /\ again.metrics = metrics

\* update_data has returned on three records with different concentrations,
\* so every calculated temperature differs from the recorded one before it.
C12_Witness ==
  /\ Replayed
  /\ last.outcome = "ok"
  /\ Len(metrics) = 3
  /\ metrics[2].calculated_temp # metrics[1].temp
  /\ metrics[3].calculated_temp # metrics[2].temp

\* The fields of a record that hold what was recorded.
RecordedFields(entry) ==
  <<PeriodOf(entry), entry.co2, entry.temp_anomaly, entry.temp>>

\* C17: update_data, whether it returns or raises, keeps the length of the
\* list and the period, concentration, recorded anomaly and recorded
\* temperature at every position; calculate_error and
\* calculate_average_percent_error change nothing in the list.
C17_OnlyCalculatedFieldsChange ==
  [][/\ last'.op = "update_data" =>
          /\ Len(metrics') = Len(metrics)
          /\ \A i \in 1..Len(metrics) :
               RecordedFields(metrics'[i]) = RecordedFields(metrics[i])
     /\ last'.op \in {"calculate_error", "calculate_average_percent_error"} =>
          metrics' = metrics]_vars

\* update_data has filled the calculated fields of a list and
\* calculate_error has since read them.
C17_Witness ==
  /\ stage = "replayed"
  /\ last.op = "calculate_error"
  /\ last.outcome = "ok"
  /\ Len(last.ret) >= 1
  /\ metrics[2].calculated_temp # None
  /\ metrics[2].temp # None

\* C13: for a past concentration >= 0 and emissions >= 0,
\* calculate_concentration returns the past concentration plus
\* (emissions * 0.45) / 2.3, which is at least the past concentration and is
\* the past concentration itself when the emissions are 0.
C13_ConcentrationGrows ==
  (last.op = "calculate_concentration" /\ last.args[1] >= 0 /\ last.args[2] >= 0) =>
    /\ last.outcome = "ok"
    /\ last.ret >= last.args[1]
    /\ last.args[2] = 0 => last.ret = last.args[1]
    /\ 2 * Abs(23 * (last.ret - last.args[1]) - 45 * last.args[2]) <= 23

\* calculate_concentration has returned more than the positive concentration
\* it was given, for emissions of 10 Gt.
C13_Witness ==
  /\ last.op = "calculate_concentration"
  /\ last.args[1] > 0
  /\ last.args[2] = 100
  /\ last.ret > last.args[1]

\* C14: given a temperature, a sensitivity in [2.0, 5.0] and two positive
\* concentrations, calculate_temperature returns a temperature and an
\* anomaly; whenever it returns, the anomaly is the temperature minus 13.9,
\* and the temperature is the one it was given when the two concentrations
\* are equal.
C14_AnomalyFromTemperature ==
  last.op = "calculate_temperature" =>
    /\ (/\ last.args[1] # None
        /\ last.args[2] \in 20..50
        /\ last.args[3] > 0
        /\ last.args[4] > 0) => last.outcome = "ok"
    /\ last.outcome = "ok" =>
         /\ Len(last.ret) = 2
         /\ last.ret[2] = last.ret[1] - 1390000
         /\ last.args[3] = last.args[4] => last.ret[1] = last.args[1][1]

\* calculate_temperature has returned a temperature above the one it was
\* given, for a concentration that rose.
C14_Witness ==
  /\ last.op = "calculate_temperature"
  /\ last.outcome = "ok"
  /\ last.args[2] \in 20..50
  /\ last.args[3] > last.args[4]
  /\ last.args[4] > 0
  /\ last.ret[1] > last.args[1][1]

\* C15 as claimed: calculate_temperature ends in a failure and returns
\* nothing whenever one of the concentrations is <= 0 or the sensitivity is
\* outside [2.0, 5.0].
C15_Original ==
  (/\ last.op = "calculate_temperature"
   /\ \/ last.args[3] <= 0
      \/ last.args[4] <= 0
      \/ last.args[2] < 20
      \/ last.args[2] > 50) =>
    /\ last.outcome # "ok"
    /\ last.ret = << >>

\* A click on the report button has asked for a start and worked on it.
ReportComputed ==
  /\ last.op = "report_error_button_callback"
  /\ Len(last.args) = 2

\* The period i - 1 periods after a start, as calculate_error labels it.
LabelFrom(is_yearly_data, start, i) ==
  IF is_yearly_data THEN <<start + i - 1>>
  ELSE LET k == start[1] * 12 + (start[2] - 1) + (i - 1)
       IN  <<k \div 12, (k % 12) + 1>>

\* C16 as claimed: a report click that computes errors comes after a graph
\* has been produced and uses the data kind and the sensitivity of the most
\* recent visualize click.
C16_Original ==
  (ReportComputed /\ last.outcome = "ok") =>
    /\ graph # None
    /\ graph[1].specifications[1] = "Off"
    /\ graph[1].specifications[2] = last.args[1][2]

\* C18: over the full data, for every start the report prompts ask for
\* (a year 1960..2009, a month 1959-2..2020-1), the report click ends well
\* and the errors it plots are 12, labelled with the requested period and
\* the 11 periods after it, in order.
C18_TwelveErrorsFromStart ==
  ReportComputed =>
    /\ last.outcome = "ok"
    /\ Len(last.ret.reported_errors) = 12
    /\ \A i \in 1..12 :
         last.ret.reported_errors[i][1] = LabelFrom(last.args[1][2][1], last.args[2], i)

\* The report has plotted the twelve months of 2020, the last start the
\* monthly prompt asks for, from the last 13 of the 744 records.
C18_Witness ==
  /\ ReportComputed
  /\ last.outcome = "ok"
  /\ ~last.args[1][2][1]
  /\ last.args[2] = <<2020, 1>>
  /\ Len(last.ret.reported_errors) = 12
  /\ last.ret.reported_errors[1][1] = <<2020, 1>>
  /\ last.ret.reported_errors[12][1] = <<2020, 12>>

\* C19 as claimed: in replay mode, over the full data, for every start the
\* visualize prompts ask for (a year 1960..2010, a month 1959-1..2020-1),
\* the section given to plot_compared_data is the 12 records of the
\* requested period and the 11 periods after it.
C19_Original ==
  (graph # None /\ graph[1].specifications[1] = "Off") =>
    /\ Len(graph[1].section) = 12
    /\ \A i \in 1..12 :
         PeriodOf(graph[1].section[i])
           = LabelFrom(graph[1].specifications[2][1], graph[1].start, i)

\* C20 as claimed: the average that a report click prints is the mean, to 2
\* decimals, of the errors that the same click plots.
C20_Original ==
  (ReportComputed /\ last.outcome = "ok") =>
    LET n == Len(last.ret.reported_errors)
    IN  2 * Abs(last.ret.printed.hundredths * 1000 * n
                  - SumValues(last.ret.reported_errors)) <= 1000 * n

====
